---- MODULE Spec2Model ----
(***************************************************************************)
(* A model of mmap-buffer (src/src/lib.rs): BackedBuffer<T>, a fixed-size  *)
(* slice of T backed by a memory-mapped, exclusively locked file, and      *)
(* Buffer<T>, the choice between a BackedBuffer and a Vec<T>.              *)
(*                                                                         *)
(* The file system is modelled as far as the library uses it: a file is a  *)
(* byte sequence, an advisory flock belongs to one open file handle, a     *)
(* shared mapping reads and writes the file's bytes.  Machine words are    *)
(* scaled down to UsizeBits bits so that capacity * size_of::<T>() can     *)
(* leave the word range inside the explored capacities.                    *)
(***************************************************************************)
EXTENDS Integers, Sequences, FiniteSets, TLC

\* ------------------------------------------------------------------ bounds
\* Paths the callers use, element sizes size_of::<T>() of the Pod types used
\* (u8 and u16), and the byte values that occur in file contents.
Paths == {"p1", "p2"}
ElemSizes == {1, 2}
Bytes == {0, 1}
\* BackedBuffer values alive at the same time on one path.
MaxInst == 2
\* Longest content of a file prepared outside the library (File::create + write).
MaxLen == 2
\* Bytes the file system has room for; allocating past it fails (ENOSPC).
DiskBytes == 2

\* ------------------------------------------------------- program constants
\* Width of usize, scaled down.
UsizeBits == 3
WordModulus == 2 ^ UsizeBits
\* Every usize: the capacities a caller can pass.
Capacities == 0..(WordModulus - 1)
\* const BLOCK_SIZE: usize = 4096, scaled down to the size of the files
\* explored: the zero-fill writes a full block, or a shorter last one.
BLOCK_SIZE == 2

Min(a, b) == IF a < b THEN a ELSE b

\* ------------------------------------------------------------ pure helpers
\* capacity * std::mem::size_of::<T>() on usize, as a release build computes
\* it (wrapping); a debug build panics when Overflows.
WrappingMul(a, b) == (a * b) % WordModulus
Overflows(a, b) == a * b >= WordModulus

Zeros(n) == [k \in 1..n |-> 0]

\* write_all(&BLOCK[..block]) at file position pos: the bytes replace the
\* file's bytes from pos on, extending the file when they reach past its end.
WriteAt(bytes, pos, data) ==
    [k \in 1..(IF pos + Len(data) > Len(bytes) THEN pos + Len(data) ELSE Len(bytes)) |->
        IF k > pos /\ k <= pos + Len(data) THEN data[k - pos]
        ELSE IF k <= Len(bytes) THEN bytes[k] ELSE 0]

\* Mutant of Block: a whole block written whatever remains.
FullBlock(size) == BLOCK_SIZE

\* let block = usize::min(size, BLOCK_SIZE)
Block(size) == Min(size, BLOCK_SIZE)

\* usize::checked_sub: Some(a - b) as <<a - b>>, None as << >>.
CheckedSub(a, b) == IF a >= b THEN <<a - b>> ELSE << >>

\* The zero-fill loop of new: while size > 0 { block = min(size, BLOCK_SIZE);
\* write_all(&BLOCK[..block]); size = size.checked_sub(block).unwrap() }.
RECURSIVE ZeroFill(_, _, _)
ZeroFill(bytes, pos, size) ==
    IF size > 0
    THEN LET block == Block(size)
         IN  ZeroFill(WriteAt(bytes, pos, Zeros(block)), pos + block, size - block)
    ELSE bytes

\* file.allocate(len) on a just truncated file: the file becomes len bytes
\* long; what the new bytes hold is up to the file system (fill).
Allocate(len, fill) == [k \in 1..len |-> fill]

\* Mutant of TryCastOk: the validation left out.
CastUnchecked(len, esz) == TRUE

\* bytemuck::try_cast_slice::<u8, T>: the byte length must be a multiple of
\* size_of::<T>() (a mapping is page aligned, so alignment never fails).
TryCastOk(len, esz) == len % esz = 0

\* Native (little-endian) layout of one element.
RECURSIVE FromBytes(_)
FromBytes(bs) ==
    IF Len(bs) = 0 THEN 0 ELSE bs[1] + 256 * FromBytes(Tail(bs))

\* Mutant of ToBytes: the element stored most significant byte first.
RECURSIVE ToBytesBigEndian(_, _)
ToBytesBigEndian(v, esz) ==
    IF esz = 0 THEN << >> ELSE ToBytesBigEndian(v \div 256, esz - 1) \o <<v % 256>>

RECURSIVE ToBytes(_, _)
ToBytes(v, esz) ==
    IF esz = 0 THEN << >> ELSE <<v % 256>> \o ToBytes(v \div 256, esz - 1)

\* The typed view try_cast_slice gives of a byte region.
CastSlice(bytes, esz) ==
    [i \in 1..(Len(bytes) \div esz) |->
        FromBytes(SubSeq(bytes, (i - 1) * esz + 1, i * esz))]

\* The element values whose bytes are all in Bytes, by element size.
ElemValsOf == [esz \in ElemSizes |-> {FromBytes(bs) : bs \in [1..esz -> Bytes]}]
ElemVals(esz) == ElemValsOf[esz]

\* Byte offset of element idx (0-based) in a slice of T.
ElemOffset(idx, esz) == idx * esz

SeqsUpTo(S, n) == UNION {[1..k -> S] : k \in 0..n}

\* ------------------------------------------------------------------- state
VARIABLES
    files,       \* path -> [exists, bytes]: the file system
    insts,       \* path -> the live BackedBuffers on it, oldest first: [esz, mapLen]
    lock,        \* path -> which of insts[path] holds the flock (its index), 0 if none
    twin,        \* the Buffer::Memory run side by side with the disk buffer last built
    lastResult,  \* the last constructor call and what it returned
    dropping,    \* what the BackedBuffer being destroyed still holds
    fill         \* the zero-fill loop of new, when it is run step by step

vars == <<files, insts, lock, twin, lastResult, dropping, fill>>

NoFile == [exists |-> FALSE, bytes |-> << >>]
NoTwin == [valid |-> FALSE, path |-> "p1", esz |-> 1, vec |-> << >>]
NoCall == [op |-> "none", path |-> "p1", esz |-> 1, cap |-> 0, data |-> << >>,
           outcome |-> "Ok", buffer |-> FALSE, after |-> "none"]

\* A call's record: the operation, its arguments (cap: the capacity asked
\* for, data: the slice given, both kept when the call succeeds), its
\* outcome, whether a buffer came back, and what the call directly follows on
\* the same path: "drop" (a buffer was dropped), "refused, drop" (a load was
\* refused for the lock, then the buffer was dropped).
Result(op, p, esz, cap, data, outcome, buffer) ==
    [op |-> op, path |-> p, esz |-> esz,
     cap |-> IF outcome = "Ok" THEN cap ELSE 0,
     data |-> IF outcome = "Ok" THEN data ELSE << >>,
     outcome |-> outcome, buffer |-> buffer,
     after |-> IF lastResult.op = "drop" /\ lastResult.path = p
               THEN (IF lastResult.after = "refused" THEN "refused, drop" ELSE "drop")
               ELSE "none"]

\* The last call was a load of p refused for the lock.
Refused(p) ==
    /\ lastResult.op = "load"
    /\ lastResult.path = p
    /\ lastResult.outcome = "LockUnavailable"

\* The caller holds no unexamined result.
Idle == lastResult.op = "none"

\* No BackedBuffer is being destroyed; while one is, held says which of its
\* file handle ("file") and mapping ("mmap") it still has.
NoDrop == [path |-> "p1", held |-> {}]
Settled == dropping.held = {}

\* The zero-fill loop is not being stepped through.
NoFill == [B |-> 0, size |-> 0, pos |-> 0, bytes |-> << >>, start |-> << >>,
           status |-> "idle"]

Init ==
    /\ files = [p \in Paths |-> NoFile]
    /\ insts = [p \in Paths |-> << >>]
    /\ lock = [p \in Paths |-> 0]
    /\ twin = NoTwin
    /\ lastResult = NoCall
    /\ dropping = NoDrop
    /\ fill = NoFill

\* The live buffers: (path, index) pairs.
Live == {pk \in Paths \X (1..MaxInst) : pk[2] <= Len(insts[pk[1]])}

\* Mutant of MappedBytes: the mapping starts one byte into the file.
MappedShifted(p, k) ==
    [j \in 1..insts[p][k].mapLen |->
        IF j + 1 <= Len(files[p].bytes) THEN files[p].bytes[j + 1] ELSE 0]

\* Mutant of MappedBytes: the mapping follows the file's current length.
MappedWholeFile(p, k) == files[p].bytes

\* &self.mmap[..]: the mapped bytes.  The mapping keeps the length it was
\* made with; bytes past the file's current end read as zero.
MappedBytes(p, k) ==
    [j \in 1..insts[p][k].mapLen |->
        IF j <= Len(files[p].bytes) THEN files[p].bytes[j] ELSE 0]

\* Deref for BackedBuffer: try_cast_slice(&self.mmap[..]).unwrap()
Deref(p, k) == CastSlice(MappedBytes(p, k), insts[p][k].esz)

\* Mutant of BufLen: the length read from the file's size at each access.
BufLenOfFile(p, k) == Len(files[p].bytes) \div insts[p][k].esz

\* self.len() of the slice
BufLen(p, k) == insts[p][k].mapLen \div insts[p][k].esz

\* ------------------------------------------------------------- from_file
\* Mutants of TryLockExclusive: a shared lock, which other holders do not
\* exclude; a blocking lock_exclusive, which waits while the lock is held.
TryLockShared(p) == "Acquired"
LockExclusive(p) == IF lock[p] # 0 THEN "Waiting" ELSE "Acquired"

\* file.try_lock_exclusive(): flock(LOCK_EX | LOCK_NB) on the new handle.  It
\* never waits: a lock held through another handle gives WouldBlock.
TryLockExclusive(p) == IF lock[p] # 0 THEN "WouldBlock" ELSE "Acquired"

\* What a constructor hands back: the outcome and the file system, buffers
\* and locks after it; a new buffer is the last of insts[path].
Returned(outcome, fs, ins, lk) ==
    [outcome |-> outcome, files |-> fs, insts |-> ins, lock |-> lk]

\* Mutant of DropHandle: the handle is never closed (leaked, or kept in the
\* error value), so its lock stays.
HandleLeaked(lk, p) == lk

\* The File that holds the lock dropped on an error path of from_file (the ?
\* returns, file goes out of scope): closing the handle gives up its flock.
DropHandle(lk, p) == [lk EXCEPT ![p] = 0]

\* unsafe fn from_file(file), with the file system fs as the caller left it:
\* lock, map the file's whole length (fault "map": map_mut fails), validate
\* the cast, build the buffer.  A handle refused the lock holds none, and
\* its drop leaves the lock with its holder.
FromFile(p, esz, fs, fault) ==
    LET got == TryLockExclusive(p)
        len == Len(fs[p].bytes)
        locked == [lock EXCEPT ![p] = Len(insts[p]) + 1]
    IN  IF got = "Waiting" THEN Returned("Waiting", fs, insts, lock)
        ELSE IF got = "WouldBlock" THEN Returned("LockUnavailable", fs, insts, lock)
        ELSE IF fault = "map"
             THEN Returned("MapFailure", fs, insts, DropHandle(locked, p))
        ELSE IF ~TryCastOk(len, esz)
             THEN Returned("LayoutMismatch", fs, insts, DropHandle(locked, p))
        ELSE IF Len(insts[p]) >= MaxInst THEN Returned("NoSlot", fs, insts, lock)
        ELSE Returned("Ok", fs,
                      [insts EXCEPT ![p] = Append(@, [esz |-> esz, mapLen |-> len])],
                      locked)

\* ------------------------------------------------------------------- load
\* Mutant of LoadResult: the file opened with create(true) and truncate(true),
\* as new opens it.
LoadCreating(p, esz) ==
    FromFile(p, esz, [files EXCEPT ![p] = [exists |-> TRUE, bytes |-> << >>]], "none")

\* BackedBuffer::load(path): open read+write, no create, no truncate.  The
\* mapping of a file that load could open is taken to succeed.
LoadResult(p, esz) ==
    IF ~files[p].exists THEN Returned("OpenFailure", files, insts, lock)
    ELSE FromFile(p, esz, files, "none")

\* -------------------------------------------------------------------- new
\* What the environment does to a call of new: whether it lets allocate
\* fail ("allocate": fs2 calls posix_fallocate on Linux, which rejects a
\* length of zero, and F_PREALLOCATE with ftruncate on macOS, which does
\* not), or a write_all of the zero-fill ("write"), or map_mut in from_file
\* ("map"); "none" is no failure but that of allocate on a full disk.  Garbage is the byte the file system
\* leaves in freshly allocated space, nonzero so that it shows where it is
\* not overwritten.
Faults == {"none", "allocate", "write", "map"}
Garbage == CHOOSE b \in Bytes : b # 0
\* A debug build panics on the overflowing multiplication, a release build wraps.
Builds == {"debug", "release"}

\* Whether the file system has room for len bytes in the (emptied) file at p.
RECURSIVE Used(_)
Used(ps) ==
    IF ps = {} THEN 0
    ELSE LET q == CHOOSE x \in ps : TRUE IN Len(files[q].bytes) + Used(ps \ {q})
HasRoom(p, len) == Used(Paths \ {p}) + len <= DiskBytes

\* Whether a failing write_all changes what new does: the zero-fill loop
\* has to be reached and has to write.
FaultShows(cap, p, esz) == WrappingMul(cap, esz) > 0 /\ HasRoom(p, WrappingMul(cap, esz))

\* The failures that make a difference to new(cap, p).
FaultsFor(cap, p, esz) ==
    {f \in Faults : \/ f = "none"
                    \/ f = "allocate" /\ WrappingMul(cap, esz) = 0
                    \/ f = "write" /\ FaultShows(cap, p, esz)
                    \/ f = "map" /\ HasRoom(p, WrappingMul(cap, esz)) /\ lock[p] = 0}

\* BackedBuffer::new(capacity, path)
NewResult(cap, p, esz, fault, build) ==
    LET capacity_bytes == WrappingMul(cap, esz)
        truncated == [files EXCEPT ![p] = [exists |-> TRUE, bytes |-> << >>]]
        allocated == [files EXCEPT ![p] =
                         [exists |-> TRUE, bytes |-> Allocate(capacity_bytes, Garbage)]]
        zeroed == [files EXCEPT ![p] =
                      [exists |-> TRUE,
                       bytes |-> ZeroFill(Allocate(capacity_bytes, Garbage), 0, capacity_bytes)]]
    IN  IF Overflows(cap, esz) /\ build = "debug"
             THEN Returned("Panic", truncated, insts, lock)
        ELSE IF ~HasRoom(p, capacity_bytes) \/ fault = "allocate"
             THEN Returned("CreationFailure", truncated, insts, lock)
        ELSE IF fault = "write" /\ capacity_bytes > 0
             THEN Returned("CreationFailure", allocated, insts, lock)
        ELSE FromFile(p, esz, zeroed, fault)

\* Buffer::new_in_memory(capacity): vec![T::zeroed(); capacity]; the
\* allocation exists only when its byte size fits the address space.
VecFits(n, esz) == n * esz < WordModulus
NewInMemory(cap, p, esz) ==
    IF VecFits(cap, esz)
    THEN [valid |-> TRUE, path |-> p, esz |-> esz, vec |-> [k \in 1..cap |-> 0]]
    ELSE NoTwin

\* Buffer::from_vec_in_memory(data)
FromVecInMemory(data, p, esz) == [valid |-> TRUE, path |-> p, esz |-> esz, vec |-> data]

\* The side-by-side run ends when the file at p is changed by anything but
\* the disk buffer's own writes.
Disturbed(p) == IF twin.path = p THEN NoTwin ELSE twin

\* A call that is waiting, or that the model has no room for, has not returned.
HasReturned(r) == r.outcome \notin {"Waiting", "NoSlot"}

\* ---------------------------------------------------------------- actions
\* A file prepared outside the library, as the tests do with File::create and
\* write; only while no buffer maps it.
Prep(p, content) ==
    /\ Idle
    /\ insts[p] = << >>
    /\ HasRoom(p, Len(content))
    /\ files' = [files EXCEPT ![p] = [exists |-> TRUE, bytes |-> content]]
    /\ twin' = Disturbed(p)
    /\ lastResult' = NoCall
    /\ UNCHANGED <<insts, lock, dropping, fill>>

\* BackedBuffer::new / Buffer::new_on_disk, with Buffer::new_in_memory of the
\* same capacity started beside it when both succeed.
New(cap, p, esz, fault, build) ==
    LET r == NewResult(cap, p, esz, fault, build)
    IN  /\ Idle
        /\ HasReturned(r)
        /\ files' = r.files
        /\ insts' = r.insts
        /\ lock' = r.lock
        /\ twin' = IF r.outcome = "Ok" THEN NewInMemory(cap, p, esz) ELSE Disturbed(p)
        /\ lastResult' = Result("new", p, esz, cap, << >>, r.outcome, r.insts # insts)
        /\ UNCHANGED <<dropping, fill>>

\* BackedBuffer::load / Buffer::load_from_disk
Load(p, esz) ==
    LET r == LoadResult(p, esz)
    IN  /\ Idle \/ (lastResult.op = "drop" /\ lastResult.path = p)
        /\ Settled
        /\ HasReturned(r)
        /\ files' = r.files
        /\ insts' = r.insts
        /\ lock' = r.lock
        /\ lastResult' = Result("load", p, esz, 0, << >>, r.outcome, r.insts # insts)
        /\ UNCHANGED <<twin, dropping, fill>>

\* Mutant of StoreMapped: a private (copy-on-write) mapping, whose stores
\* never reach the file.
StorePrivate(bytes, off, data) == bytes

\* The bytes of the file after a store of data through a mapping at byte
\* offset off: a shared mapping writes the file; bytes past the file's end
\* are not part of it.
StoreMapped(bytes, off, data) ==
    [k \in 1..Len(bytes) |->
        IF k > off /\ k <= off + Len(data) THEN data[k - off] ELSE bytes[k]]

\* Mutant of Flatten: the copy stops one element short.
RECURSIVE FlattenShort(_, _)
FlattenShort(vals, esz) ==
    IF Len(vals) <= 1 THEN << >>
    ELSE ToBytes(Head(vals), esz) \o FlattenShort(Tail(vals), esz)

RECURSIVE Flatten(_, _)
Flatten(vals, esz) ==
    IF Len(vals) = 0 THEN << >> ELSE ToBytes(Head(vals), esz) \o Flatten(Tail(vals), esz)

\* A mapping none of whose pages is backed by the file any more: touching
\* it raises SIGBUS.
Unbacked(p, k) == insts[p][k].mapLen > 0 /\ Len(files[p].bytes) = 0

\* Vec side of the same write: data[idx] = v
VecSet(t, esz, idx, v) ==
    IF t.valid /\ t.esz = esz /\ idx < Len(t.vec)
    THEN [t EXCEPT !.vec = [@ EXCEPT ![idx + 1] = v]]
    ELSE NoTwin

\* Vec side of the same bulk copy: data.copy_from_slice(src)
VecCopy(t, esz, src) ==
    IF t.valid /\ t.esz = esz /\ Len(t.vec) = Len(src)
    THEN [t EXCEPT !.vec = src]
    ELSE NoTwin

\* buf[idx] = v through DerefMut (BackedBuffer, or Buffer by deref_mut or
\* as_mut, which dispatch to the same code).
Write(p, k, idx, v) ==
    /\ Idle
    /\ <<p, k>> \in Live
    /\ ~Unbacked(p, k)
    /\ idx < BufLen(p, k)
    /\ files' = [files EXCEPT ![p].bytes =
                    StoreMapped(@, ElemOffset(idx, insts[p][k].esz), ToBytes(v, insts[p][k].esz))]
    /\ twin' = IF twin.path = p THEN VecSet(twin, insts[p][k].esz, idx, v) ELSE twin
    /\ lastResult' = NoCall
    /\ UNCHANGED <<insts, lock, dropping, fill>>

\* buf.copy_from_slice(src) on an existing buffer (slice::copy_from_slice
\* through DerefMut); it panics unless src is as long as the buffer.
BulkCopy(p, k, src) ==
    /\ Idle
    /\ <<p, k>> \in Live
    /\ ~Unbacked(p, k)
    /\ Len(src) = BufLen(p, k)
    /\ files' = [files EXCEPT ![p].bytes = StoreMapped(@, 0, Flatten(src, insts[p][k].esz))]
    /\ twin' = IF twin.path = p THEN VecCopy(twin, insts[p][k].esz, src) ELSE twin
    /\ lastResult' = NoCall
    /\ UNCHANGED <<insts, lock, dropping, fill>>

\* BackedBuffer::copy_from_slice(slice, path) / Buffer::from_slice_on_disk:
\* new(slice.len(), path)?, then buf.copy_from_slice(slice), which panics
\* (dropping buf) when the lengths differ.
CopyFromSlice(slice, p, esz, fault) ==
    LET r == NewResult(Len(slice), p, esz, fault, "release")
        fits == r.outcome = "Ok" /\ Len(r.files[p].bytes) \div esz = Len(slice)
        panics == r.outcome = "Ok" /\ ~fits
    IN  /\ Idle
        /\ HasReturned(r)
        /\ files' = IF fits
                    THEN [r.files EXCEPT ![p].bytes = StoreMapped(@, 0, Flatten(slice, esz))]
                    ELSE r.files
        /\ insts' = IF panics THEN insts ELSE r.insts
        /\ lock' = IF panics THEN lock ELSE r.lock
        /\ twin' = IF fits THEN FromVecInMemory(slice, p, esz) ELSE Disturbed(p)
        /\ lastResult' = Result("copy_from_slice", p, esz, Len(slice), slice,
                                IF panics THEN "Panic" ELSE r.outcome, fits)
        /\ UNCHANGED <<dropping, fill>>

\* s without its k-th element
Remove(s, k) == [j \in 1..(Len(s) - 1) |-> IF j < k THEN s[j] ELSE s[j + 1]]

\* Mutant of Drop: the lock outlives the buffer.
DropKeepsLock(p, k) ==
    /\ Idle \/ Refused(p)
    /\ <<p, k>> \in Live
    /\ insts' = [insts EXCEPT ![p] = Remove(@, k)]
    /\ lastResult' = [NoCall EXCEPT !.op = "drop", !.path = p,
                                    !.after = IF Refused(p) THEN "refused" ELSE "none"]
    /\ dropping' = [path |-> p, held |-> {"file", "mmap"}]
    /\ UNCHANGED <<files, twin, lock, fill>>

\* Drop for BackedBuffer, the body of drop: file.take() and file.unlock()
\* (errors ignored).  The value is no longer a live buffer; its handle and
\* its mapping are still to go.
Drop(p, k) ==
    /\ Idle \/ Refused(p)
    /\ <<p, k>> \in Live
    /\ insts' = [insts EXCEPT ![p] = Remove(@, k)]
    /\ lock' = [lock EXCEPT ![p] = IF @ = k THEN 0 ELSE IF @ > k THEN @ - 1 ELSE @]
    /\ lastResult' = [NoCall EXCEPT !.op = "drop", !.path = p,
                                    !.after = IF Refused(p) THEN "refused" ELSE "none"]
    /\ dropping' = [path |-> p, held |-> {"file", "mmap"}]
    /\ UNCHANGED <<files, twin, fill>>

\* Mutant of CloseFile: the mapping goes while the handle is still open.
UnmapFirst ==
    /\ "file" \in dropping.held
    /\ dropping' = [dropping EXCEPT !.held = @ \ {"mmap"}]
    /\ UNCHANGED <<files, insts, lock, twin, lastResult, fill>>

\* The end of the if let block in drop: the File taken out of self.file goes
\* out of scope and is closed.
CloseFile ==
    /\ "file" \in dropping.held
    /\ dropping' = [dropping EXCEPT !.held = @ \ {"file"}]
    /\ UNCHANGED <<files, insts, lock, twin, lastResult, fill>>

\* After drop has returned the fields are dropped in the order of their
\* declaration: mmap (munmap), then file, which is None by now.
Unmap ==
    /\ dropping.held = {"mmap"}
    /\ dropping' = NoDrop
    /\ UNCHANGED <<files, insts, lock, twin, lastResult, fill>>

\* A read or write through an unbacked mapping: SIGBUS ends the process, the
\* operating system closes its handles and with them gives up its locks.
Sigbus(p, k) ==
    /\ Idle
    /\ <<p, k>> \in Live
    /\ Unbacked(p, k)
    /\ insts' = [q \in Paths |-> << >>]
    /\ lock' = [q \in Paths |-> 0]
    /\ twin' = NoTwin
    /\ lastResult' = NoCall
    /\ UNCHANGED <<files, dropping, fill>>

\* The caller looks at what the call returned (the let binding, ? or expect
\* at the call site) and goes on.
TakeResult ==
    /\ ~Idle
    /\ Settled
    /\ lastResult' = NoCall
    /\ UNCHANGED <<files, insts, lock, twin, dropping, fill>>

\* The slices callers copy to disk: those an empty disk has room for (a
\* longer one fails in allocate like a capacity that is too large).
SlicesOf ==
    [esz \in ElemSizes |->
        {sl \in SeqsUpTo(ElemVals(esz), DiskBytes) :
            VecFits(Len(sl), esz) /\ Len(sl) * esz <= DiskBytes}]
Slices(esz) == SlicesOf[esz]

\* The contents of files prepared outside the library.
PrepContents == SeqsUpTo(Bytes, MaxLen)

\* The calls a caller makes next; all but load and drop while it holds no
\* unexamined result.
Next ==
    \/ Idle /\ \E p \in Paths, content \in PrepContents : Prep(p, content)
    \/ Idle /\ \E cap \in Capacities, p \in Paths, esz \in ElemSizes :
                  \E build \in (IF Overflows(cap, esz) THEN Builds ELSE {"release"}),
                     fault \in FaultsFor(cap, p, esz) :
                     New(cap, p, esz, fault, build)
    \/ Idle /\ \E esz \in ElemSizes, p \in Paths :
                  \E slice \in Slices(esz) :
                     \E fault \in FaultsFor(Len(slice), p, esz) :
                        CopyFromSlice(slice, p, esz, fault)
    \/ Idle /\ \E pk \in Live : \E idx \in 0..(BufLen(pk[1], pk[2]) - 1),
                                   v \in ElemVals(insts[pk[1]][pk[2]].esz) :
                  Write(pk[1], pk[2], idx, v)
    \/ Idle /\ \E pk \in Live :
                  \E src \in [1..BufLen(pk[1], pk[2]) -> ElemVals(insts[pk[1]][pk[2]].esz)] :
                     BulkCopy(pk[1], pk[2], src)
    \/ Idle /\ \E pk \in Live : Sigbus(pk[1], pk[2])
    \/ \E p \in Paths, esz \in ElemSizes : Load(p, esz)
    \/ \E pk \in Live : Drop(pk[1], pk[2])
    \/ CloseFile
    \/ Unmap
    \/ TakeResult

Spec == Init /\ [][Next]_vars

\* ------------------------------------------------- the zero-fill loop alone
\* The loop of new run one iteration at a time, from every byte count B that
\* capacity * size_of::<T>() can be and every content allocate can leave in
\* the B bytes of the file: size is what remains to write, pos the file
\* position, bytes the file, start the file as the loop found it.
FillInputs ==
    {[B |-> b, size |-> b, pos |-> 0, bytes |-> st, start |-> st, status |-> "running"] :
        b \in Capacities, st \in SeqsUpTo(Bytes, WordModulus - 1)}

FillInit ==
    /\ files = [p \in Paths |-> NoFile]
    /\ insts = [p \in Paths |-> << >>]
    /\ lock = [p \in Paths |-> 0]
    /\ twin = NoTwin
    /\ lastResult = NoCall
    /\ dropping = NoDrop
    /\ fill \in {f \in FillInputs : Len(f.start) = f.B}

\* One iteration: block = min(size, BLOCK_SIZE); write_all(&BLOCK[..block])
\* succeeds; size = size.checked_sub(block).unwrap(), which panics on None.
WriteBlock ==
    /\ fill.status = "running"
    /\ fill.size > 0
    /\ LET block == Block(fill.size)
           rest == CheckedSub(fill.size, block)
       IN  fill' = [fill EXCEPT !.bytes = WriteAt(@, fill.pos, Zeros(block)),
                                !.pos = @ + block,
                                !.size = IF rest = << >> THEN @ ELSE rest[1],
                                !.status = IF rest = << >> THEN "Panic" ELSE @]
    /\ UNCHANGED <<files, insts, lock, twin, lastResult, dropping>>

\* write_all fails: the ? returns the error from new.
WriteFails ==
    /\ fill.status = "running"
    /\ fill.size > 0
    /\ fill' = [fill EXCEPT !.status = "CreationFailure"]
    /\ UNCHANGED <<files, insts, lock, twin, lastResult, dropping>>

\* while size > 0 is false: new goes on to from_file.
LoopExit ==
    /\ fill.status = "running"
    /\ fill.size = 0
    /\ fill' = [fill EXCEPT !.status = "done"]
    /\ UNCHANGED <<files, insts, lock, twin, lastResult, dropping>>

FillNext == WriteBlock \/ WriteFails \/ LoopExit

\* A running loop goes on running.
ZeroFillSpec == FillInit /\ [][FillNext]_vars /\ WF_vars(FillNext)

\* ------------------------------------------------------------------ claims
Constructors == {"new", "load", "copy_from_slice"}

\* The buffer the last call returned: the youngest on its path.
Newest == Len(insts[lastResult.path])

\* The buffers that were alive on the call's path when it was made.
LiveBefore == Len(insts[lastResult.path]) - (IF lastResult.buffer THEN 1 ELSE 0)

\* C1: a load of a path that a live buffer already backs fails with the
\* lock-unavailable error and returns no buffer; a load that directly follows
\* the drop of that buffer is not refused for the lock, and succeeds when the
\* file's length fits the element type.
Exclusivity ==
    lastResult.op = "load" =>
        /\ (files[lastResult.path].exists /\ LiveBefore > 0)
              => (lastResult.outcome = "LockUnavailable" /\ ~lastResult.buffer)
        /\ lastResult.after \in {"drop", "refused, drop"}
              => /\ lastResult.outcome # "LockUnavailable"
                 /\ TryCastOk(Len(files[lastResult.path].bytes), lastResult.esz)
                       => (lastResult.outcome = "Ok" /\ lastResult.buffer)

\* The test locking in full: a load was refused, the buffer was dropped, and
\* the load that follows has succeeded.
ExclusivityWitness ==
    /\ lastResult.op = "load"
    /\ lastResult.after = "refused, drop"
    /\ lastResult.outcome = "Ok"
    /\ lock[lastResult.path] = Newest

\* C2: in every state a file's lock is held if and only if exactly one live
\* buffer exists for the file; no file has two live buffers, and no live
\* buffer is without its lock.
LockLifetime ==
    \A p \in Paths :
        /\ Len(insts[p]) <= 1
        /\ lock[p] # 0 <=> Len(insts[p]) = 1
        /\ lock[p] <= Len(insts[p])

\* A buffer has just been dropped and its lock is free, while the buffer on
\* another path keeps its own lock.
LockLifetimeWitness ==
    /\ lastResult.op = "drop"
    /\ lock[lastResult.path] = 0
    /\ insts[lastResult.path] = << >>
    /\ \E q \in Paths \ {lastResult.path} : lock[q] = 1 /\ Len(insts[q]) = 1

\* The round trip over the indices the buffer has: a buffer loaded again
\* from the path of a buffer made by new, written and dropped shows at every
\* index what the Vec that got the same writes holds: the last value written
\* there, zero where nothing was written.
RoundTrip ==
    (/\ lastResult.op = "load"
     /\ lastResult.outcome = "Ok"
     /\ twin.valid
     /\ twin.path = lastResult.path
     /\ twin.esz = lastResult.esz)
    => /\ BufLen(lastResult.path, Newest) = Len(twin.vec)
       /\ \A i \in 1..Len(twin.vec) : Deref(lastResult.path, Newest)[i] = twin.vec[i]

\* A reload right after the drop shows a written value and an untouched zero.
RoundTripWitness ==
    /\ lastResult.op = "load"
    /\ lastResult.outcome = "Ok"
    /\ lastResult.after = "drop"
    /\ twin.valid
    /\ twin.path = lastResult.path
    /\ twin.esz = lastResult.esz
    /\ \E i, j \in 1..Len(twin.vec) :
          /\ twin.vec[i] # 0
          /\ twin.vec[j] = 0
          /\ Deref(lastResult.path, Newest)[i] = twin.vec[i]

\* C3: for any capacity C > 0, the buffer new(C, path) returns can be written
\* at every index in [0, C), and after the drop and the reload every index
\* shows its last written value, or zero where nothing was written.
RoundTripAsStated ==
    /\ (lastResult.op = "new" /\ lastResult.outcome = "Ok" /\ lastResult.cap > 0)
       => \A idx \in 0..(lastResult.cap - 1) : idx < BufLen(lastResult.path, Newest)
    /\ RoundTrip

\* C4: whenever new(C, path) succeeds, the buffer has exactly C elements, all
\* zero, and the file is C * size_of(T) bytes long.
ZeroFillOnCreate ==
    (lastResult.op = "new" /\ lastResult.outcome = "Ok")
    => /\ BufLen(lastResult.path, Newest) = lastResult.cap
       /\ \A i \in 1..BufLen(lastResult.path, Newest) : Deref(lastResult.path, Newest)[i] = 0
       /\ Len(files[lastResult.path].bytes) = lastResult.cap * lastResult.esz

LoadVerbatim ==
    lastResult.op = "load" =>
        /\ lastResult.outcome # "Ok"
              => \/ ~files[lastResult.path].exists
                 \/ Len(files[lastResult.path].bytes) % lastResult.esz # 0
                 \/ lock[lastResult.path] # 0
        /\ lastResult.outcome = "Ok"
              => /\ lastResult.buffer
                 /\ BufLen(lastResult.path, Newest) * lastResult.esz
                       = Len(files[lastResult.path].bytes)
                 /\ Flatten(Deref(lastResult.path, Newest), lastResult.esz)
                       = files[lastResult.path].bytes

\* A prepared file with a nonzero byte has been loaded as u16.
LoadVerbatimWitness ==
    /\ lastResult.op = "load"
    /\ lastResult.outcome = "Ok"
    /\ lastResult.esz = 2
    /\ ~twin.valid
    /\ BufLen(lastResult.path, Newest) = 1
    /\ Deref(lastResult.path, Newest)[1] = 256

\* C7: copy_from_slice(slice, path) never panics in the element-wise copy,
\* and when it succeeds the buffer is as long as the slice and holds its
\* elements one for one.
CopyFromSliceIntoNew ==
    lastResult.op = "copy_from_slice" =>
        /\ lastResult.outcome # "Panic"
        /\ lastResult.outcome = "Ok"
              => /\ lastResult.buffer
                 /\ BufLen(lastResult.path, Newest) = Len(lastResult.data)
                 /\ \A i \in 1..Len(lastResult.data) :
                       Deref(lastResult.path, Newest)[i] = lastResult.data[i]

\* A slice of several elements, the last nonzero, has been copied.
CopyFromSliceWitness ==
    /\ lastResult.op = "copy_from_slice"
    /\ lastResult.outcome = "Ok"
    /\ Len(lastResult.data) >= 2
    /\ lastResult.data[Len(lastResult.data)] # 0
    /\ lastResult.data[1] = 0

\* Deref / AsRef for Buffer: both arms of both, Disk and Memory.
BufferDeref(p, k) == Deref(p, k)
BufferAsRef(p, k) == Deref(p, k)
MemoryDeref(t) == t.vec

\* C8: a Buffer built by new_on_disk(C, path) and a Buffer built by
\* new_in_memory(C) that got the same writes read the same at every index,
\* through Deref and through AsRef.
VariantParity ==
    \A p \in Paths : \A k \in 1..Len(insts[p]) :
        (twin.valid /\ twin.path = p /\ twin.esz = insts[p][k].esz)
        => /\ BufferDeref(p, k) = MemoryDeref(twin)
           /\ BufferAsRef(p, k) = MemoryDeref(twin)

\* Both variants hold a written u16 value.
VariantParityWitness ==
    /\ Idle
    /\ twin.valid
    /\ twin.esz = 2
    /\ Len(insts[twin.path]) = 1
    /\ insts[twin.path][1].esz = 2
    /\ Len(twin.vec) = 1
    /\ twin.vec[1] = 1
    /\ BufferDeref(twin.path, 1)[1] = 1

\* C9: a live buffer's mapping is always a whole number of elements long,
\* and no step changes the element size or the mapped length of a buffer
\* that stays alive: only creating and dropping buffers changes insts.
CapacityImmutable ==
    /\ [](\A p \in Paths : \A k \in 1..Len(insts[p]) :
             /\ insts[p][k].mapLen % insts[p][k].esz = 0
             /\ BufLen(p, k) * insts[p][k].esz = insts[p][k].mapLen)
    /\ [][\A p \in Paths : Len(insts'[p]) = Len(insts[p]) => insts'[p] = insts[p]]_vars

\* A buffer of several elements whose contents were replaced in place.
CapacityImmutableWitness ==
    \E p \in Paths :
        /\ Idle
        /\ Len(insts[p]) = 1
        /\ BufLen(p, 1) = 2
        /\ Len(files[p].bytes) = 2
        /\ \A i \in 1..2 : Deref(p, 1)[i] = 1

\* C10: every call of new, load and copy_from_slice returns at once: in no
\* state does the outcome of a call wait for a lock, on whatever path, with
\* whatever arguments (copy_from_slice locks inside its call of new), and on
\* a file whose lock a live buffer holds a load returns the lock-unavailable
\* error.
NonBlocking ==
    \A p \in Paths, esz \in ElemSizes :
       /\ HasReturned(LoadResult(p, esz))
       /\ \A cap \in Capacities :
             \A build \in (IF Overflows(cap, esz) THEN Builds ELSE {"release"}) :
                HasReturned(NewResult(cap, p, esz, "none", build))
       /\ (lock[p] # 0 /\ files[p].exists)
             => LoadResult(p, esz).outcome = "LockUnavailable"

\* A copy_from_slice onto a path whose lock a live buffer holds has returned
\* its error.
NonBlockingWitness ==
    /\ lastResult.op = "copy_from_slice"
    /\ lastResult.outcome = "LockUnavailable"
    /\ lock[lastResult.path] # 0
    /\ Len(insts[lastResult.path]) = 1

\* C11: while a buffer is live on a path, no call of new, copy_from_slice or
\* load on that path (each fails for the lock) changes the file's length or
\* any of its bytes.
OnlyLiveInstanceMutates ==
    [][\A p \in Paths :
          (/\ lastResult'.op \in Constructors
           /\ lastResult'.path = p
           /\ Len(insts[p]) > 0)
          => files'[p] = files[p]]_vars

\* C12 as stated: a BackedBuffer being destroyed gives up the lock first,
\* then the mapping, then the file handle: the handle is held as long as the
\* mapping is.
TeardownOrderAsStated ==
    /\ ~Settled => lock[dropping.path] = 0
    /\ "mmap" \in dropping.held => "file" \in dropping.held

\* C12 amended: a BackedBuffer being destroyed gives up the lock first, then
\* the file handle, then the mapping: the mapping is held as long as the
\* handle is, and the lock is free from the first step on.
TeardownOrder ==
    /\ ~Settled => lock[dropping.path] = 0
    /\ "file" \in dropping.held => "mmap" \in dropping.held

\* The buffer being destroyed has closed its file and still has its mapping.
TeardownOrderWitness ==
    /\ dropping.held = {"mmap"}
    /\ lastResult.op = "drop"
    /\ lastResult.path = dropping.path
    /\ lock[dropping.path] = 0

\* The re-validation in deref and deref_mut: try_cast_slice on the mapped
\* bytes; the unwrap panics when it fails.
DerefCastOk(p, k) == TryCastOk(Len(MappedBytes(p, k)), insts[p][k].esz)

\* C13: for every live buffer, in every state its life passes through, the
\* cast that deref and deref_mut repeat succeeds: the unwrap never panics.
AccessNeverFatal ==
    \A p \in Paths : \A k \in 1..Len(insts[p]) : DerefCastOk(p, k)

\* A live u16 buffer, written to, whose file another call has cut to an odd
\* length: the cast of its mapping still succeeds.
AccessNeverFatalWitness ==
    \E p \in Paths :
        /\ Idle
        /\ Len(insts[p]) = 1
        /\ insts[p][1].esz = 2
        /\ Len(files[p].bytes) = 1
        /\ Len(MappedBytes(p, 1)) = 2
        /\ DerefCastOk(p, 1)

\* C14: a construction that fails in from_file after it took the lock (the
\* mapping fails, or the cast rejects the length) returns no buffer and
\* leaves the lock free: a load of the path with an element type that fits
\* the file's length succeeds.
NoLockLeftBehind ==
    (/\ lastResult.op \in Constructors
     /\ lastResult.outcome \in {"MapFailure", "LayoutMismatch"})
    => /\ ~lastResult.buffer
       /\ lock[lastResult.path] = 0
       /\ \A esz \in ElemSizes :
             TryCastOk(Len(files[lastResult.path].bytes), esz)
             => LoadResult(lastResult.path, esz).outcome = "Ok"

\* new has zero-filled its file and failed to map it.
NoLockLeftBehindWitness ==
    /\ lastResult.op = "new"
    /\ lastResult.outcome = "MapFailure"
    /\ Len(files[lastResult.path].bytes) > 0
    /\ lock[lastResult.path] = 0
    /\ insts[lastResult.path] = << >>

\* C15: a call of load, whatever it returns, leaves every file as it found
\* it: the same length, the same bytes, and no file where there was none.
LoadNeverAltersFile ==
    [][lastResult'.op = "load" => files' = files]_vars

\* A load of a path with no file has failed, and there is still no file; a
\* file on the other path has its content.
LoadNeverAltersFileWitness ==
    /\ lastResult.op = "load"
    /\ lastResult.outcome = "OpenFailure"
    /\ ~files[lastResult.path].exists
    /\ \E q \in Paths : files[q].exists /\ Len(files[q].bytes) > 0

\* C16: for every byte count B the zero-fill loop writes zero bytes from
\* file offset 0 in blocks of min(remaining, BLOCK_SIZE) bytes; what is
\* written and what remains always add up to B, what remains gets strictly
\* smaller with every block, the loop ends, having written exactly B zero
\* bytes unless a write failed, the checked_sub never yields None, and a
\* failed write ends the loop with an error and no further write.
ZeroFillLoop ==
    /\ [](/\ fill.pos + fill.size = fill.B
          /\ fill.status # "Panic"
          /\ Len(fill.bytes) = fill.B
          /\ \A k \in 1..fill.B :
                fill.bytes[k] = IF k <= fill.pos THEN 0 ELSE fill.start[k]
          /\ fill.status = "done"
                => /\ fill.size = 0
                   /\ fill.pos = fill.B
                   /\ fill.bytes = Zeros(fill.B)
                   /\ fill.bytes = ZeroFill(fill.start, 0, fill.B))
    /\ [][\/ /\ fill.status = "running"
             /\ fill'.status = "running"
             /\ fill'.size < fill.size
             /\ fill'.pos - fill.pos = Min(fill.size, BLOCK_SIZE)
          \/ /\ fill.status = "running"
             /\ fill'.status \in {"done", "CreationFailure"}
             /\ fill'.bytes = fill.bytes
             /\ fill'.status = "done" => fill.size = 0]_fill
    /\ <>(fill.status # "running")

\* The loop has ended after a full block and a shorter last one, over bytes
\* that were not zero.
ZeroFillLoopWitness ==
    /\ fill.status = "done"
    /\ fill.B = BLOCK_SIZE + 1
    /\ \A k \in 1..fill.B : fill.start[k] # 0
    /\ fill.bytes = Zeros(fill.B)

\* C17: new(capacity, path) never returns a buffer whose element count is
\* not capacity; when capacity * size_of(T) leaves the word range, the call
\* does not succeed with a file and a buffer sized by the wrapped product.
NoSilentWrap ==
    (lastResult.op = "new" /\ lastResult.outcome = "Ok")
    => /\ ~Overflows(lastResult.cap, lastResult.esz)
       /\ BufLen(lastResult.path, Newest) = lastResult.cap

====
